---- MODULE Spec2Model ----
(***************************************************************************)
(* Model of the Tavily RAG pipeline: the LangGraph run graph built by      *)
(* TavilyRAGPipeline._build_graph, its five nodes, the critique router,    *)
(* the retried retrieval call tavily_search, the evidence filter           *)
(* format_context_from_tavily and the query decomposer                     *)
(* LLM.generate_subqueries.                                                *)
(*                                                                         *)
(* Text is modelled as a sequence of one-character strings, so that        *)
(* len(), lower(), "in", strip(), re.sub() and json.loads() are computed   *)
(* character by character as Python computes them.                         *)
(***************************************************************************)
EXTENDS Integers, Sequences, FiniteSets, TLC

(***************************************************************************)
(* Characters and elementary string functions.                             *)
(***************************************************************************)
NL == "\n"
QT == "\""
\* the backquote character (written by name: a backquote cannot stand in a TLA+ string)
BT == "BACKQUOTE"

UpperChars == <<"A","B","C","D","E","F","G","H","I","J","K","L","M",
                "N","O","P","Q","R","S","T","U","V","W","X","Y","Z">>
LowerChars == <<"a","b","c","d","e","f","g","h","i","j","k","l","m",
                "n","o","p","q","r","s","t","u","v","w","x","y","z">>

\* str.lower() on one character.
LowerChar(c) ==
    IF \E i \in 1..Len(UpperChars) : UpperChars[i] = c
    THEN LowerChars[CHOOSE i \in 1..Len(UpperChars) : UpperChars[i] = c]
    ELSE c

\* str.lower()
Lower(s) == [i \in 1..Len(s) |-> LowerChar(s[i])]

\* sub in s
Contains(sub, s) ==
    \E i \in 0..(Len(s) - Len(sub)) : SubSeq(s, i + 1, i + Len(sub)) = sub

\* s[i:] starts with p (i is 1-based)
StartsAt(s, i, p) ==
    /\ i + Len(p) - 1 <= Len(s)
    /\ SubSeq(s, i, i + Len(p) - 1) = p

IsSpace(c) == c \in {" ", NL, "\t", "\r"}
IsDigit(c) == c \in {"0","1","2","3","4","5","6","7","8","9"}

\* index of the first character at or after i that is not whitespace
\* (Len(s) + 1 when there is none)
RECURSIVE SkipSpace(_, _)
SkipSpace(s, i) ==
    IF i <= Len(s) /\ IsSpace(s[i]) THEN SkipSpace(s, i + 1) ELSE i

\* index of the last character at or before j that is not whitespace (0 when none)
RECURSIVE SkipSpaceBack(_, _)
SkipSpaceBack(s, j) ==
    IF j >= 1 /\ IsSpace(s[j]) THEN SkipSpaceBack(s, j - 1) ELSE j

\* str.strip()
Strip(s) == SubSeq(s, SkipSpace(s, 1), SkipSpaceBack(s, Len(s)))

\* str.rstrip(c) for a single character c
RECURSIVE RStripChar(_, _)
RStripChar(s, c) ==
    IF Len(s) > 0 /\ s[Len(s)] = c THEN RStripChar(SubSeq(s, 1, Len(s) - 1), c) ELSE s

\* sep.join(parts)
RECURSIVE Join(_, _)
Join(sep, parts) ==
    IF Len(parts) = 0 THEN <<>>
    ELSE IF Len(parts) = 1 THEN parts[1]
    ELSE parts[1] \o sep \o Join(sep, Tail(parts))

(***************************************************************************)
(* LLM.generate_subqueries: fence removal and JSON parsing.                *)
(***************************************************************************)
Fence == <<BT, BT, BT>>
JsonWord == <<"j","s","o","n">>

\* re.sub of the pattern: three backquotes, an optional "json", any whitespace, scanning from position i
RECURSIVE RemoveFences(_, _)
RemoveFences(s, i) ==
    IF i > Len(s) THEN <<>>
    ELSE IF StartsAt(s, i, Fence)
         THEN LET j == IF StartsAt(s, i + 3, JsonWord) THEN i + 7 ELSE i + 3
              IN  RemoveFences(s, SkipSpace(s, j))
         ELSE <<s[i]>> \o RemoveFences(s, i + 1)

\* lines 114-115: cleaned_response
CleanResponse(raw) == RStripChar(RemoveFences(Strip(raw), 1), BT)

\* JSON values: t is the type, s the text of a string, items the elements of a list
JStr(s) == [t |-> "str", s |-> s, items |-> <<>>]
JList(items) == [t |-> "list", s |-> <<>>, items |-> items]
JAtom(t) == [t |-> t, s |-> <<>>, items |-> <<>>]
\* a parse result: ok, the value, the index after it
PFail == [ok |-> FALSE, val |-> JAtom("null"), pos |-> 0]
POk(v, p) == [ok |-> TRUE, val |-> v, pos |-> p]

\* index of the closing quote of a string whose content starts at i (0 when none);
\* a backslash or a control character inside a string is rejected
RECURSIVE StringEnd(_, _)
StringEnd(s, i) ==
    IF i > Len(s) \/ s[i] \in {"\\", NL, "\t", "\r"} THEN 0
    ELSE IF s[i] = QT THEN i
    ELSE StringEnd(s, i + 1)

\* index after the number starting at i: "0", or a non-zero digit and more digits
RECURSIVE DigitsEnd(_, _)
DigitsEnd(s, i) ==
    IF i <= Len(s) /\ IsDigit(s[i]) THEN DigitsEnd(s, i + 1) ELSE i
NumberEnd(s, i) == IF s[i] = "0" THEN i + 1 ELSE DigitsEnd(s, i)

RECURSIVE ParseValue(_, _)
RECURSIVE ParseItems(_, _, _)

\* json decoder: one value starting at index i (after whitespace)
ParseValue(s, i) ==
    IF i > Len(s) THEN PFail
    ELSE IF s[i] = QT
         THEN LET e == StringEnd(s, i + 1)
              IN  IF e = 0 THEN PFail ELSE POk(JStr(SubSeq(s, i + 1, e - 1)), e + 1)
    ELSE IF s[i] = "["
         THEN LET j == SkipSpace(s, i + 1)
              IN  IF j <= Len(s) /\ s[j] = "]" THEN POk(JList(<<>>), j + 1)
                  ELSE ParseItems(s, j, <<>>)
    ELSE IF s[i] = "{"
         THEN LET j == SkipSpace(s, i + 1)
              IN  IF j <= Len(s) /\ s[j] = "}" THEN POk(JAtom("obj"), j + 1) ELSE PFail
    ELSE IF IsDigit(s[i]) THEN POk(JAtom("num"), NumberEnd(s, i))
    ELSE IF StartsAt(s, i, <<"n","u","l","l">>) THEN POk(JAtom("null"), i + 4)
    ELSE PFail

\* the elements of a list from index i on, acc holding the elements read so far
ParseItems(s, i, acc) ==
    LET r == ParseValue(s, i)
    IN  IF ~r.ok THEN PFail
        ELSE LET j == SkipSpace(s, r.pos)
             IN  IF j > Len(s) THEN PFail
                 ELSE IF s[j] = "]" THEN POk(JList(Append(acc, r.val)), j + 1)
                 ELSE IF s[j] = "," THEN ParseItems(s, SkipSpace(s, j + 1), Append(acc, r.val))
                 ELSE PFail

\* json.loads(s): one value, surrounded by whitespace only
JsonLoads(s) ==
    LET r == ParseValue(s, SkipSpace(s, 1))
    IN  IF r.ok /\ SkipSpace(s, r.pos) > Len(s) THEN r ELSE PFail

\* IsListOfStr without the test of the elements
IsListOfStr_TypeOnly(v) == v.t = "list"

\* line 117: isinstance(parsed, list) and all(isinstance(q, str) for q in parsed)
IsListOfStr(v) ==
    /\ v.t = "list"
    /\ \A k \in 1..Len(v.items) : v.items[k].t = "str"

\* default of the max_subqueries parameter
MaxSubqueries == 15

\* parsed[:n]
Take(seq, n) == SubSeq(seq, 1, IF Len(seq) < n THEN Len(seq) ELSE n)

\* The provider reply to one call: failed (the call raised) or a text.
LlmFailed == [failed |-> TRUE, text |-> <<>>]
LlmText(t) == [failed |-> FALSE, text |-> t]

\* LLM.generate_subqueries(query) given the provider reply
generate_subqueries(query, reply) ==
    IF reply.failed THEN <<query>>
    ELSE LET parsed == JsonLoads(CleanResponse(reply.text))
         IN  IF parsed.ok /\ IsListOfStr(parsed.val)
             THEN Take([k \in 1..Len(parsed.val.items) |-> parsed.val.items[k].s],
                       MaxSubqueries)
             ELSE <<query>>

(***************************************************************************)
(* format_context_from_tavily: the evidence filter.                        *)
(* A result is [title, content, score, hasScore]; scores are counted in    *)
(* hundredths (0.9 is 90) and subtracted exactly.  A response is           *)
(* [hasResults, results]: the provider's dict with or without "results".   *)
(***************************************************************************)
\* defaults of the parameters score_max_diff (0.08, in hundredths) and max_results
ScoreMaxDiff == 8
MaxResultsKept == 4

\* r.get("score", 0) when it is a finite number (kind "num"), in hundredths.
\* A score can also be a float that is not finite: kind "inf" (infinity),
\* "ninf" (-infinity) or "nan".
ScoreOf(r) == IF r.hasScore THEN r.score ELSE 0

KindOf(r) == IF r.hasScore THEN r.kind ELSE "num"

\* the float comparison a < b of the scores of a and b: false when either
\* is NaN
ScoreLess(a, b) ==
    LET rank(k) == CASE k = "ninf" -> 0 [] k = "num" -> 1 [] OTHER -> 2
    IN  IF KindOf(a) = "nan" \/ KindOf(b) = "nan" THEN FALSE
        ELSE IF KindOf(a) = "num" /\ KindOf(b) = "num" THEN ScoreOf(a) < ScoreOf(b)
        ELSE rank(KindOf(a)) < rank(KindOf(b))

\* DiffWithin with the subtraction turned around
DiffWithin_Reversed(t, r, diff) ==
    KindOf(t) = "num" /\ KindOf(r) = "num" /\ ScoreOf(r) - ScoreOf(t) >= diff

\* line 79, the float test (top_score - score) <= score_max_diff for the
\* top result t and the result r: inf - inf and anything with NaN give NaN,
\* which compares false
DiffWithin(t, r, diff) ==
    CASE KindOf(t) = "nan" \/ KindOf(r) = "nan" -> FALSE
      [] KindOf(t) = "num" /\ KindOf(r) = "num" -> ScoreOf(t) - ScoreOf(r) <= diff
      [] KindOf(t) = KindOf(r) -> FALSE
      [] KindOf(t) = "inf" -> FALSE
      [] KindOf(t) = "ninf" -> TRUE
      [] KindOf(r) = "inf" -> TRUE
      [] OTHER -> FALSE

\* response.get("results", [])
ResultsOf(response) == IF response.hasResults THEN response.results ELSE <<>>

\* insert r into a list sorted by descending score, after the entries that
\* do not score less (sorted() is stable, also with reverse=True)
RECURSIVE InsertDesc(_, _)
InsertDesc(r, sorted) ==
    IF Len(sorted) = 0 THEN <<r>>
    ELSE IF ~ScoreLess(Head(sorted), r)
         THEN <<Head(sorted)>> \o InsertDesc(r, Tail(sorted))
         ELSE <<r>> \o sorted

\* sorted(results, key=lambda r: r.get("score", 0), reverse=True), results[1..n]
RECURSIVE SortDesc(_, _)
SortDesc(results, n) ==
    IF n = 0 THEN <<>> ELSE InsertDesc(results[n], SortDesc(results, n - 1))

\* [r for r in rs if cond(r)]
RECURSIVE WithinDiff(_, _, _)
WithinDiff(rs, top, diff) ==
    IF Len(rs) = 0 THEN <<>>
    ELSE (IF DiffWithin(top, Head(rs), diff) THEN <<Head(rs)>> ELSE <<>>)
         \o WithinDiff(Tail(rs), top, diff)

\* FilterKept without the truncation to maxResults
FilterKept_NoLimit(results, diff, maxResults) ==
    LET sorted == SortDesc(results, Len(results))
    IN  WithinDiff(sorted, sorted[1], diff)

\* lines 77-79: the kept results of a non-empty list
FilterKept(results, diff, maxResults) ==
    LET sorted == SortDesc(results, Len(results))
        top    == sorted[1]
    IN  Take(WithinDiff(sorted, top, diff), maxResults)

NoRelevantText ==
    <<"N","o"," ","r","e","l","e","v","a","n","t"," ","i","n","f","o","r","m","a",
      "t","i","o","n"," ","f","o","u","n","d",".">>
NoHighConfidenceText ==
    <<"N","o"," ","h","i","g","h","-","c","o","n","f","i","d","e","n","c","e"," ",
      "s","o","u","r","c","e","s"," ","a","v","a","i","l","a","b","l","e",".">>

\* line 83: one context part
FormatPart(r) == r.title \o <<":", NL>> \o r.content \o <<NL, NL>>

\* lines 83-84
FormatParts(kept) == Join(<<NL, NL>>, [k \in 1..Len(kept) |-> FormatPart(kept[k])])

\* format_context_from_tavily with the two fallback texts exchanged
format_context_TextsSwapped(response, diff, maxResults) ==
    LET results == ResultsOf(response)
    IN  IF Len(results) = 0 THEN NoHighConfidenceText
        ELSE LET filtered == FilterKept(results, diff, maxResults)
             IN  IF Len(filtered) = 0 THEN NoRelevantText
                 ELSE FormatParts(filtered)

\* format_context_from_tavily(response, score_max_diff, max_results)
format_context_from_tavily(response, diff, maxResults) ==
    LET results == ResultsOf(response)
    IN  IF Len(results) = 0 THEN NoRelevantText
        ELSE LET filtered == FilterKept(results, diff, maxResults)
             IN  IF Len(filtered) = 0 THEN NoHighConfidenceText
                 ELSE FormatParts(filtered)

(***************************************************************************)
(* tavily_search and its retry decorator.                                  *)
(***************************************************************************)
NoExc == [type |-> "none", msg |-> "none"]
TavilySearchError(msg) == [type |-> "TavilySearchError", msg |-> msg]
CancelledError == [type |-> "CancelledError", msg |-> "cancelled"]
RetryError == [type |-> "RetryError", msg |-> "retry"]

\* line 43
MaxQueryLen == 400
\* line 28: stop_after_attempt(3)
StopAfterAttempt == 3

\* line 27: reraise=True
Reraise == TRUE

\* line 30: retry_if_exception_type(TavilySearchError)
ShouldRetry(exc) == exc.type = "TavilySearchError"

\* What the provider does with one search call: answers with a response,
\* raises, or the awaiting task is cancelled (a BaseException, which
\* "except Exception" does not catch).
ProviderAnswer(r) == [kind |-> "response", response |-> r]
ProviderRaises == [kind |-> "raise", response |-> [hasResults |-> FALSE, results |-> <<>>]]
ProviderCancelled == [kind |-> "cancel", response |-> [hasResults |-> FALSE, results |-> <<>>]]

\* lines 43-46: the validation in front of the provider call
ValidationError(query, key) ==
    IF Len(query) > MaxQueryLen THEN TavilySearchError("query too long")
    ELSE IF ~key THEN TavilySearchError("api key not found")
    ELSE NoExc

\* lines 43-58: one execution of the body of tavily_search.
\* [exc, value, called]: the exception raised (NoExc when it returned), the
\* returned context, whether the provider was called.
TavilyAttempt(query, key, outcome) ==
    LET v == ValidationError(query, key)
    IN  IF v # NoExc THEN [exc |-> v, value |-> <<>>, called |-> FALSE]
        ELSE IF outcome.kind = "raise"
             THEN [exc |-> TavilySearchError("sdk error"), value |-> <<>>, called |-> TRUE]
        ELSE IF outcome.kind = "cancel"
             THEN [exc |-> CancelledError, value |-> <<>>, called |-> TRUE]
        ELSE [exc |-> NoExc,
              value |-> format_context_from_tavily(outcome.response,
                                                   ScoreMaxDiff, MaxResultsKept),
              called |-> TRUE]

\* RetryDecision stopping one attempt late
RetryDecision_OneMore(n, exc) ==
    IF ShouldRetry(exc) /\ n <= StopAfterAttempt THEN "retry" ELSE "raise"

\* tenacity after attempt number n raised exc: "retry" (sleep, then call
\* again) or "raise"
RetryDecision(n, exc) ==
    IF ShouldRetry(exc) /\ n < StopAfterAttempt THEN "retry" ELSE "raise"

\* the exception the decorated call raises when it gives up after exc
RaisedAfter(exc) ==
    IF ShouldRetry(exc) /\ ~Reraise THEN RetryError ELSE exc

(***************************************************************************)
(* The search depth of _search_and_context_node (lines 61-62).             *)
(***************************************************************************)
DepthWordLimit == 8
DepthCountLimit == 3

\* the first position at or after i whose character is whitespace (when
\* space) or is not (otherwise); Len(s) + 1 when there is none
FirstAt(s, i, space) ==
    LET hits == {j \in i..Len(s) : IsSpace(s[j]) = space}
    IN  IF hits = {} THEN Len(s) + 1
        ELSE CHOOSE j \in hits : \A k \in hits : j <= k

\* s.split() from position i on: skip the whitespace, take the word up to
\* the next whitespace, go on behind it; the number of words taken
RECURSIVE WordsFrom(_, _)
WordsFrom(s, i) ==
    LET start == FirstAt(s, i, FALSE)
    IN  IF start > Len(s) THEN 0
        ELSE 1 + WordsFrom(s, FirstAt(s, start, TRUE))

\* len(s.split())
WordCount(s) == WordsFrom(s, 1)

\* search_depth taking a sub-query of DepthWordLimit words for a long one
search_depth_AtLimit(subquery, total) ==
    IF WordCount(subquery) >= DepthWordLimit \/ total > DepthCountLimit
    THEN "advanced" ELSE "basic"

\* lines 61-62: the search_depth passed to tavily_search for subquery when
\* the state holds total sub-queries
search_depth(subquery, total) ==
    IF WordCount(subquery) > DepthWordLimit \/ total > DepthCountLimit
    THEN "advanced" ELSE "basic"

(***************************************************************************)
(* LLM.generate_answer, the critique router and the run graph.             *)
(***************************************************************************)
InaccurateText == <<"i","n","a","c","c","u","r","a","t","e">>
InaccurateUpperText == <<"I","N","A","C","C","U","R","A","T","E","!">>
OkText == <<"o","k">>
AccurateText == <<"a","c","c","u","r","a","t","e">>

\* lines 76-79 of llm_response.py: the provider failure is wrapped in Exception
CohereError == [type |-> "Exception", msg |-> "Error calling Cohere"]

CohereErrorText ==
    <<"[","E","r","r","o","r"," ","c","a","l","l","i","n","g"," ","C","o","h","e","r","e","]">>

\* generate_answer returning the text of the error instead of raising it
generate_answer_Swallows(reply) ==
    [exc |-> NoExc, text |-> IF reply.failed THEN CohereErrorText ELSE reply.text]

\* lines 76-79: one provider call; [exc, text]: the exception raised (NoExc
\* when it returned) and the text returned
generate_answer(reply) ==
    IF reply.failed THEN [exc |-> CohereError, text |-> <<>>]
    ELSE [exc |-> NoExc, text |-> reply.text]

NoGen == [calls |-> 0, failures |-> 0]

\* the provider calls of a node execution after one more call answered reply
Called(g, reply) ==
    [calls |-> g.calls + 1, failures |-> g.failures + IF reply.failed THEN 1 ELSE 0]

\* line 120: the value returned by the routing function
critique_condition(st) ==
    IF Contains(InaccurateText, Lower(st.response)) THEN "search_context" ELSE "publish"

START == "__start__"
END == "__end__"

\* combine_context joining the new snippets to the context of the state
combine_context_Appended(st, snips) ==
    IF st.combined_context = <<>> THEN Join(<<NL, NL>>, snips)
    ELSE st.combined_context \o <<NL, NL>> \o Join(<<NL, NL>>, snips)

\* line 65: the combined_context the retrieval node returns, given the state
\* st and the snippets collected since line 57 emptied the list
combine_context(st, snips) == Join(<<NL, NL>>, snips)

\* publish_returns handing back the verdict of the critic
publish_returns_Verdict(st) == st.revised_response

\* line 116: the value of "response" in the update the publish node returns
publish_returns(st) == st.response

\* line 111: the width _publish_node passes to _print_wrapped_under_bar
MaxWidth == 80

\* the pipeline object without the attribute _char_buffer
NoBuffer == [has |-> FALSE, text |-> <<>>]

\* str.rfind(" ", 0, w): the last position among the first w characters of s
\* that holds a blank; 0 when there is none (positions count from 1)
RFindBlank(s, w) ==
    LET hits == {i \in 1..(IF w < Len(s) THEN w ELSE Len(s)) : s[i] = " "}
    IN  IF hits = {} THEN 0 ELSE CHOOSE i \in hits : \A j \in hits : j <= i

\* str.rstrip(), str.lstrip()
RStrip(s) == SubSeq(s, 1, SkipSpaceBack(s, Len(s)))
LStrip(s) == SubSeq(s, SkipSpace(s, 1), Len(s))

\* lines 181-187, the loop of _print_wrapped_under_bar: the buffer left and
\* the lines printed
RECURSIVE WrapLoop(_, _, _)
WrapLoop(buf, lines, w) ==
    IF Len(buf) < w THEN [buffer |-> buf, lines |-> lines]
    ELSE LET p == RFindBlank(buf, w)
             cut == IF p = 0 THEN w ELSE p - 1
         IN  WrapLoop(LStrip(SubSeq(buf, cut + 1, Len(buf))),
                      Append(lines, RStrip(SubSeq(buf, 1, cut))), w)

\* lines 178-187: _print_wrapped_under_bar(text, w) on an object whose buffer
\* attribute is obj
print_wrapped_under_bar(obj, text, w) ==
    WrapLoop((IF obj.has THEN obj.text ELSE <<>>) \o text, <<>>, w)

\* lines 110-116 of _publish_node for the response text: the buffer
\* attribute left on the object and the lines printed under the header
publish(obj, text) ==
    LET wrapped == print_wrapped_under_bar(obj, text, MaxWidth)
    IN  IF Strip(wrapped.buffer) # <<>>
        THEN [obj |-> NoBuffer,
              lines |-> wrapped.lines \o <<Strip(wrapped.buffer), <<>>>>]
        ELSE [obj |-> [has |-> TRUE, text |-> wrapped.buffer], lines |-> wrapped.lines]

\* lines 134-138
BuiltNodes == {"parse", "search_context", "llm", "critique_and_revise", "publish"}

\* lines 140-145
BuiltEdges ==
    { <<START, "parse">>, <<"parse", "search_context">>, <<"search_context", "llm">>,
      <<"llm", "critique_and_revise">>, <<"critique_and_revise", "publish">>,
      <<"publish", END>> }

\* lines 148-155: the source node of each conditional edge and its targets
BuiltBranches ==
    { [from |-> "critique_and_revise", ends |-> {"search_context", "publish"}] }

\* line 158: what compile() checks of a topology: every edge and branch joins
\* declared nodes and the graph has an entry point
CompileAccepts(ns, es, bs) ==
    /\ \A e \in es : e[1] \in ns \cup {START} /\ e[2] \in ns \cup {END}
    /\ \A b \in bs : b.from \in ns /\ b.ends \subseteq ns \cup {END}
    /\ \E e \in es : e[1] = START

(***************************************************************************)
(* Inputs.                                                                 *)
(***************************************************************************)
\* one character more than the longest query tavily_search accepts
LongQuery == [i \in 1..(MaxQueryLen + 1) |-> "a"]
ShortQuery == <<"h","i">>
Queries == {ShortQuery, LongQuery}

\* replies of the generation provider to the decomposition prompt
DecompReplies ==
    { LlmFailed,
      LlmText(InaccurateText),
      LlmText(<<"[",QT,"a",QT,",",QT,"b",QT,"]">>),
      LlmText(<<"[","]">>),
      LlmText(<<"[","1","]">>),
      LlmText(<<"[",QT,"a",QT,",","1","]">>),
      LlmText(<<"[","n","u","l","l","]">>),
      LlmText(<<"[","[",QT,"a",QT,"]","]">>),
      LlmText(<<"[",QT,"a",QT>>),
      LlmText(<<"[",QT,"a",QT,"]"," ","x">>),
      LlmText(<<"{","}">>),
      LlmText(<<QT,"a",QT>>),
      LlmText(<<" ","[",QT,"a",QT," ",",",QT,"b"," ","c",QT,"]",NL>>),
      LlmText(<<BT,BT,BT,"j","s","o","n",NL,"[",QT,"a",QT,"]",NL,BT,BT,BT>>) }

\* replies of the generation provider to the answer and the critique prompts
AnswerReplies ==
    { LlmFailed, LlmText(OkText), LlmText(InaccurateText), LlmText(InaccurateUpperText),
      LlmText(AccurateText) }

Result(title, content, score) ==
    [title |-> title, content |-> content, score |-> score, hasScore |-> TRUE,
     kind |-> "num"]

\* responses of the retrieval provider
ProviderResponses ==
    { [hasResults |-> FALSE, results |-> <<>>],
      [hasResults |-> TRUE,
       results |-> << Result(<<"T">>, <<"x">>, 50), Result(<<"U">>, <<"y">>, 90),
                      Result(<<"V">>, <<"z">>, 85) >>] }

ProviderOutcomes ==
    {ProviderAnswer(r) : r \in ProviderResponses} \cup {ProviderRaises, ProviderCancelled}

\* supersteps explored in one run
MaxSupersteps == 11

StateKeys == {"subqueries", "combined_context", "response", "revised_response"}

(***************************************************************************)
(* State.                                                                  *)
(***************************************************************************)
VARIABLES
    phase,            \* "new", "ready", "running", "interrupted", "done", "error"
    nodes, edges, branches, compiled,     \* self.graph
    apiKey,           \* TAVILY_API_KEY is set
    alwaysInaccurate, \* the generation provider answers "inaccurate" to every call
    state,            \* the AgentState channels as committed by the last superstep
    active,           \* the nodes of the current superstep
    finished,         \* those of them that have returned
    writes, written,  \* the updates returned in this superstep, and their keys
    branchTo,         \* the targets chosen by conditional edges in this superstep
    superstep,        \* number of the current superstep
    lastRoute,        \* the last value _critique_condition returned
    lastReply,        \* the provider reply generate_subqueries last handled
    snippets, idx,    \* _search_and_context_node: snippets, index of the sub-query
    attempt,          \* tavily_search: number of the attempt made last
    callDone,         \* tavily_search: the call has returned or raised
    lastExc,          \* tavily_search: what the last attempt raised
    waits, provCalls, \* tavily_search: sleeps and provider calls of the call
    depth,            \* the search_depth passed to tavily_search last
    searchPasses,     \* completed executions of the retrieval node
    fetched,          \* the sub-queries answered in the retrieval pass made
                      \* last, each with the response of the provider
    publishRuns,      \* executions of the publish node
    charBuffer,       \* self._char_buffer: whether the attribute exists, its text
    printed,          \* the lines the publish node printed last, under its header
    err,              \* the exception that aborted the run
    checkpoint,       \* MemorySaver: the latest checkpoint: the superstep, the
                      \* channel values, the nodes that ran, the nodes scheduled
    gen,              \* the generation-provider calls of the answer and critique
                      \* nodes of this superstep, and how many of them failed
    resume,           \* what the interrupted run held, and whether the current
                      \* superstep is the one a resumption started with
    fIn, fKept, fOut, fDone,  \* a direct call of format_context_from_tavily:
                      \* the response, the kept results, the returned text
    dText, dTotal, dOut,      \* the depth chosen for the sub-query dText of a
                      \* state with dTotal sub-queries ("none": not chosen yet)
    pText, pCalls     \* direct calls of _publish_node: the response of the
                      \* last call, the number of calls made

vars == << phase, nodes, edges, branches, compiled, apiKey, alwaysInaccurate, state,
           active, finished, writes, written, branchTo, superstep, lastRoute, lastReply,
           snippets, idx, attempt, callDone, lastExc, waits, provCalls, depth, searchPasses,
           fetched, publishRuns, err, checkpoint, resume, gen, fIn, fKept, fOut, fDone, dText, dTotal,
           dOut, charBuffer, printed, pText, pCalls >>

filterVars == << fIn, fKept, fOut, fDone >>
depthVars == << dText, dTotal, dOut >>
publishCallVars == << pText, pCalls >>
harnessVars == << filterVars, depthVars, publishCallVars >>
publisherVars == << charBuffer, printed >>
graphVars == << nodes, edges, branches, compiled >>
envVars == << apiKey, alwaysInaccurate >>
callVars == << snippets, idx, attempt, callDone, lastExc, waits, provCalls, depth >>

NoWrites ==
    [subqueries |-> <<>>, combined_context |-> <<>>, response |-> <<>>,
     revised_response |-> <<>>]

InitialState(q) ==
    [query |-> q, subqueries |-> <<>>, combined_context |-> <<>>, response |-> <<>>,
     revised_response |-> <<>>]

NoResume == [on |-> FALSE, values |-> InitialState(<<>>), passes |-> 0]

\* saved_checkpoint recording the entry node as the node to run next
saved_checkpoint_FromEntry(step, values, done, next) ==
    [step |-> step, values |-> values, done |-> done,
     next |-> IF next = {} THEN {} ELSE {"parse"}]

\* line 158, compile(checkpointer=memory): the checkpoint the engine saves
\* at the end of superstep step: the channel values, the nodes that ran,
\* the nodes scheduled next
saved_checkpoint(step, values, done, next) ==
    [step |-> step, values |-> values, done |-> done, next |-> next]

Init ==
    /\ phase = "new"
    /\ nodes = {} /\ edges = {} /\ branches = {} /\ compiled = FALSE
    /\ apiKey \in BOOLEAN
    /\ alwaysInaccurate \in BOOLEAN
    /\ \E q \in Queries : state = InitialState(q)
    /\ active = {} /\ finished = {}
    /\ writes = NoWrites /\ written = {}
    /\ branchTo = {}
    /\ superstep = 0
    /\ lastRoute = "none"
    /\ lastReply = LlmFailed
    /\ snippets = <<>> /\ idx = 1
    /\ attempt = 0 /\ callDone = TRUE /\ lastExc = NoExc
    /\ waits = 0 /\ provCalls = 0 /\ depth = "none"
    /\ searchPasses = 0 /\ publishRuns = 0 /\ fetched = <<>>
    /\ err = NoExc
    /\ checkpoint = [step |-> 0, values |-> state, done |-> {}, next |-> {}]
    /\ resume = NoResume /\ gen = NoGen
    /\ charBuffer = NoBuffer /\ printed = <<>>
    /\ fIn = [hasResults |-> FALSE, results |-> <<>>]
    /\ fKept = <<>> /\ fOut = <<>> /\ fDone = FALSE
    /\ dText = <<>> /\ dTotal = 1 /\ dOut = "none"
    /\ pText = <<>> /\ pCalls = 0

\* the replies the generation provider can give to one call
Replies(free) == IF alwaysInaccurate THEN {LlmText(InaccurateText)} ELSE free

Running(n) == phase = "running" /\ n \in active /\ n \notin finished

\* TavilyRAGPipeline.__init__: _build_graph
BuildGraph ==
    /\ phase = "new"
    /\ nodes' = BuiltNodes
    /\ edges' = BuiltEdges
    /\ branches' = BuiltBranches
    /\ compiled' = CompileAccepts(BuiltNodes, BuiltEdges, BuiltBranches)
    /\ phase' = IF compiled' THEN "ready" ELSE "error"
    /\ UNCHANGED << harnessVars, publisherVars, envVars, resume, gen, state, active, finished, writes,
                    written, branchTo, superstep, lastRoute, lastReply, callVars, searchPasses, fetched,
                    publishRuns, err, checkpoint >>

\* the graph is invoked: the entry edge schedules the first superstep
StartRun ==
    /\ phase = "ready"
    /\ phase' = "running"
    /\ active' = {e[2] : e \in {d \in edges : d[1] = START}}
    /\ superstep' = 1
    /\ checkpoint' = saved_checkpoint(0, state, {}, active')
    /\ UNCHANGED << harnessVars, publisherVars, graphVars, envVars, resume, gen, state, finished, writes, written,
                    branchTo, lastRoute, lastReply, callVars, searchPasses, fetched,
                    publishRuns, err >>

\* _query_parser_node
ParseNode ==
    /\ Running("parse")
    /\ \E reply \in Replies(DecompReplies) :
         /\ lastReply' = reply
         /\ writes' = [writes EXCEPT !.subqueries = generate_subqueries(state.query, reply)]
    /\ written' = written \cup {"subqueries"}
    /\ finished' = finished \cup {"parse"}
    /\ UNCHANGED << harnessVars, publisherVars, phase, graphVars, envVars, resume, gen, state, active, branchTo,
                    superstep, lastRoute, callVars, searchPasses, fetched, publishRuns, err,
                    checkpoint >>

\* _search_and_context_node, one pass of its loop body: one attempt of
\* tavily_search(subquery) and what the retry decorator does after it
SearchAttempt ==
    /\ Running("search_context")
    /\ idx <= Len(state.subqueries)
    /\ \E outcome \in ProviderOutcomes :
         LET n == IF callDone THEN 1 ELSE attempt + 1
             a == TavilyAttempt(state.subqueries[idx], apiKey, outcome)
             calls == (IF callDone THEN 0 ELSE provCalls) + (IF a.called THEN 1 ELSE 0)
             slept == IF callDone THEN 0 ELSE waits
         IN  /\ attempt' = n
             /\ depth' = search_depth(state.subqueries[idx], Len(state.subqueries))
             /\ lastExc' = a.exc
             /\ provCalls' = calls
             /\ IF a.exc = NoExc
                THEN /\ snippets' = Append(snippets, a.value)
                     /\ fetched' = Append(fetched, [q |-> state.subqueries[idx],
                                                    response |-> outcome.response])
                     /\ idx' = idx + 1
                     /\ callDone' = TRUE
                     /\ waits' = slept
                     /\ UNCHANGED << phase, err >>
                ELSE IF RetryDecision(n, a.exc) = "retry"
                THEN /\ callDone' = FALSE
                     /\ waits' = slept + 1
                     /\ UNCHANGED << snippets, fetched, idx, phase, err >>
                ELSE /\ callDone' = TRUE
                     /\ waits' = slept
                     /\ phase' = "error"
                     /\ err' = RaisedAfter(a.exc)
                     /\ UNCHANGED << snippets, fetched, idx >>
    /\ UNCHANGED << harnessVars, publisherVars, graphVars, envVars, resume, gen, state, active, finished, writes,
                    written, branchTo, superstep, lastRoute, lastReply, searchPasses,
                    publishRuns, checkpoint >>

\* _search_and_context_node, lines 65-66: the loop is over
SearchFinish ==
    /\ Running("search_context")
    /\ idx > Len(state.subqueries)
    /\ writes' = [writes EXCEPT !.combined_context = combine_context(state, snippets)]
    /\ written' = written \cup {"combined_context"}
    /\ finished' = finished \cup {"search_context"}
    /\ searchPasses' = searchPasses + 1
    /\ UNCHANGED << harnessVars, publisherVars, phase, graphVars, envVars, resume, gen, state, active, branchTo, superstep,
                    lastRoute, lastReply, callVars, fetched, publishRuns, err,
                    checkpoint >>

\* _llm_node
LlmNode ==
    /\ Running("llm")
    /\ \E reply \in Replies(AnswerReplies) :
         LET r == generate_answer(reply)
         IN  /\ gen' = Called(gen, reply)
             /\ IF r.exc # NoExc
                THEN /\ phase' = "error"
                     /\ err' = r.exc
                     /\ UNCHANGED << writes, written, finished >>
                ELSE /\ writes' = [writes EXCEPT !.response = r.text]
                     /\ written' = written \cup {"response"}
                     /\ finished' = finished \cup {"llm"}
                     /\ UNCHANGED << phase, err >>
    /\ UNCHANGED << harnessVars, publisherVars, graphVars, envVars, resume, state, active, branchTo, superstep, lastRoute,
                    lastReply, callVars, searchPasses, fetched, publishRuns,
                    checkpoint >>

\* _critique_and_revise_node, and the conditional edge evaluated on the state
\* as updated by the node
CritiqueNode ==
    /\ Running("critique_and_revise")
    /\ \E reply \in Replies(AnswerReplies) :
         LET r == generate_answer(reply)
             updated == [state EXCEPT !.revised_response = r.text]
             route == critique_condition(updated)
         IN  /\ gen' = Called(gen, reply)
             /\ IF r.exc # NoExc
                THEN /\ phase' = "error"
                     /\ err' = r.exc
                     /\ UNCHANGED << writes, written, finished, branchTo, lastRoute >>
                ELSE /\ writes' = [writes EXCEPT !.revised_response = r.text]
                     /\ written' = written \cup {"revised_response"}
                     /\ finished' = finished \cup {"critique_and_revise"}
                     /\ lastRoute' = route
                     /\ branchTo' = branchTo \cup
                           {route : b \in {c \in branches : c.from = "critique_and_revise"
                                                             /\ route \in c.ends}}
                     /\ UNCHANGED << phase, err >>
    /\ UNCHANGED << harnessVars, publisherVars, graphVars, envVars, resume, state, active, superstep, lastReply, callVars,
                    searchPasses, fetched, publishRuns, checkpoint >>

\* _publish_node
PublishNode ==
    /\ Running("publish")
    /\ writes' = [writes EXCEPT !.response = publish_returns(state)]
    /\ written' = written \cup {"response"}
    /\ finished' = finished \cup {"publish"}
    /\ publishRuns' = publishRuns + 1
    /\ charBuffer' = publish(charBuffer, state.response).obj
    /\ printed' = publish(charBuffer, state.response).lines
    /\ UNCHANGED << harnessVars, phase, graphVars, envVars, resume, gen, state, active, branchTo, superstep,
                    lastRoute, lastReply, callVars, searchPasses, fetched, err,
                    checkpoint >>

\* the channels after the updates of a superstep are applied
Applied(st, ws, keys) ==
    [query |-> st.query,
     subqueries |-> IF "subqueries" \in keys THEN ws.subqueries ELSE st.subqueries,
     combined_context |-> IF "combined_context" \in keys THEN ws.combined_context
                          ELSE st.combined_context,
     response |-> IF "response" \in keys THEN ws.response ELSE st.response,
     revised_response |-> IF "revised_response" \in keys THEN ws.revised_response
                          ELSE st.revised_response]

\* the nodes scheduled after the nodes of done have returned: the targets of
\* their edges and the targets their conditional edges chose
NextNodes(done, chosen) ==
    ({e[2] : e \in {d \in edges : d[1] \in done}} \cup chosen) \ {END}

\* a superstep is over when every node scheduled in it has returned
SuperstepOver(act, fin) == fin = act

\* the engine between two supersteps: apply the updates, save the checkpoint,
\* schedule the next nodes
EndSuperstep ==
    /\ phase = "running"
    /\ active # {}
    /\ SuperstepOver(active, finished)
    /\ LET next == NextNodes(finished, branchTo)
       IN  /\ next # {} => superstep < MaxSupersteps
           /\ state' = Applied(state, writes, written)
           /\ checkpoint' = saved_checkpoint(superstep, state', finished, next)
           /\ active' = next
           /\ phase' = IF next = {} THEN "done" ELSE "running"
           /\ superstep' = IF next = {} THEN superstep ELSE superstep + 1
           /\ fetched' = IF "search_context" \in next THEN <<>> ELSE fetched
    /\ finished' = {}
    /\ writes' = NoWrites /\ written' = {}
    /\ branchTo' = {}
    /\ snippets' = <<>> /\ idx' = 1
    /\ attempt' = 0 /\ callDone' = TRUE /\ lastExc' = NoExc
    /\ waits' = 0 /\ provCalls' = 0 /\ depth' = "none"
    /\ resume' = NoResume /\ gen' = NoGen
    /\ UNCHANGED << harnessVars, publisherVars, graphVars, envVars, lastRoute, lastReply, searchPasses,
                    publishRuns, err >>

\* The run is interrupted (the task awaiting the graph is cancelled, the
\* process is stopped): the channels of the run and the call in progress
\* are lost; the checkpointer keeps the latest checkpoint and the writes of
\* the nodes of the superstep that had returned.
Interrupt ==
    /\ phase = "running"
    /\ phase' = "interrupted"
    /\ resume' = [on |-> FALSE, values |-> state, passes |-> searchPasses]
    /\ state' = InitialState(state.query)
    /\ active' = {}
    /\ superstep' = 0
    /\ snippets' = <<>> /\ idx' = 1
    /\ attempt' = 0 /\ callDone' = TRUE /\ lastExc' = NoExc
    /\ waits' = 0 /\ provCalls' = 0 /\ depth' = "none"
    /\ fetched' = IF "search_context" \in active \ finished THEN <<>> ELSE fetched
    /\ UNCHANGED << harnessVars, publisherVars, graphVars, envVars, gen, finished, writes, written, branchTo,
                    lastRoute, lastReply, searchPasses, publishRuns, err, checkpoint >>

\* The graph is invoked again for the same thread without input: the engine
\* loads the latest checkpoint and goes on with the nodes it scheduled, the
\* nodes whose writes were kept excepted.
Resume ==
    /\ phase = "interrupted"
    /\ phase' = "running"
    /\ state' = checkpoint.values
    /\ active' = checkpoint.next
    /\ superstep' = checkpoint.step + 1
    /\ resume' = [resume EXCEPT !.on = TRUE]
    /\ UNCHANGED << harnessVars, publisherVars, graphVars, envVars, gen, finished, writes, written, branchTo,
                    lastRoute, lastReply, callVars, searchPasses, fetched, publishRuns,
                    err, checkpoint >>

Next ==
    \/ BuildGraph
    \/ StartRun
    \/ ParseNode
    \/ SearchAttempt
    \/ SearchFinish
    \/ LlmNode
    \/ CritiqueNode
    \/ PublishNode
    \/ EndSuperstep
    \/ Interrupt
    \/ Resume

Spec == Init /\ [][Next]_vars

(***************************************************************************)
(* Direct calls of format_context_from_tavily on every response with up to *)
(* MaxFilterLen results.                                                   *)
(***************************************************************************)
MaxFilterLen == 5

\* the scores a result can carry, in hundredths; -1 stands for no "score" key.
\* On these scores the float subtraction of line 79 and the exact one agree.
FilterScores == {90, 85, 83, 50, 40, 8, -1}

\* the results with the scores sc, told apart by their titles
ResultsWith(sc) ==
    [i \in 1..Len(sc) |->
        [title |-> <<LowerChars[i]>>, content |-> <<"c">>,
         score |-> IF sc[i] < 0 THEN 0 ELSE sc[i], hasScore |-> sc[i] >= 0,
         kind |-> "num"]]

FilterInputs ==
    { [hasResults |-> FALSE, results |-> <<>>] } \cup
    { [hasResults |-> TRUE, results |-> ResultsWith(sc)] :
        sc \in UNION { [1..n -> FilterScores] : n \in 0..MaxFilterLen } }

InitFilter ==
    /\ phase = "new"
    /\ nodes = {} /\ edges = {} /\ branches = {} /\ compiled = FALSE
    /\ apiKey = TRUE
    /\ alwaysInaccurate = FALSE
    /\ state = InitialState(ShortQuery)
    /\ active = {} /\ finished = {}
    /\ writes = NoWrites /\ written = {}
    /\ branchTo = {}
    /\ superstep = 0
    /\ lastRoute = "none"
    /\ lastReply = LlmFailed
    /\ snippets = <<>> /\ idx = 1
    /\ attempt = 0 /\ callDone = TRUE /\ lastExc = NoExc
    /\ waits = 0 /\ provCalls = 0 /\ depth = "none"
    /\ searchPasses = 0 /\ publishRuns = 0 /\ fetched = <<>>
    /\ err = NoExc
    /\ checkpoint = [step |-> 0, values |-> state, done |-> {}, next |-> {}]
    /\ resume = NoResume /\ gen = NoGen
    /\ charBuffer = NoBuffer /\ printed = <<>>
    /\ fIn \in FilterInputs
    /\ fKept = <<>> /\ fOut = <<>> /\ fDone = FALSE
    /\ dText = <<>> /\ dTotal = 1 /\ dOut = "none"
    /\ pText = <<>> /\ pCalls = 0

\* format_context_from_tavily(fIn) with the default parameters
FilterCall ==
    /\ ~fDone
    /\ fDone' = TRUE
    /\ fKept' = IF Len(ResultsOf(fIn)) = 0 THEN <<>>
                ELSE FilterKept(ResultsOf(fIn), ScoreMaxDiff, MaxResultsKept)
    /\ fOut' = format_context_from_tavily(fIn, ScoreMaxDiff, MaxResultsKept)
    /\ UNCHANGED << fIn, depthVars, publishCallVars, publisherVars, phase, graphVars, envVars, resume, gen, state, active, finished,
                    writes, written, branchTo, superstep, lastRoute, lastReply, callVars,
                    searchPasses, fetched, publishRuns, err, checkpoint >>

NextFilter == FilterCall

SpecFilter == InitFilter /\ [][NextFilter]_vars

(***************************************************************************)
(* Direct evaluations of the depth rule of _search_and_context_node on     *)
(* sub-queries of up to MaxWords words in states of up to MaxTotal         *)
(* sub-queries.                                                            *)
(***************************************************************************)
MaxWords == 10
MaxTotal == 5

DepthWord == <<"a","b">>

\* n words joined by sep
RECURSIVE WordsJoined(_, _)
WordsJoined(n, sep) ==
    IF n = 0 THEN <<>>
    ELSE IF n = 1 THEN DepthWord
    ELSE WordsJoined(n - 1, sep) \o sep \o DepthWord

\* sub-queries of 0..MaxWords words, the words separated by one blank, two
\* blanks or a newline, with and without blanks around them
DepthTexts ==
    { lead \o WordsJoined(n, sep) \o trail :
        n \in 0..MaxWords, sep \in {<<" ">>, <<" ", " ">>, <<NL>>},
        lead \in {<<>>, <<" ">>}, trail \in {<<>>, <<" ">>} }

\* the pipeline object and the filter call left as constructed
PipelineIdle ==
    /\ phase = "new"
    /\ nodes = {} /\ edges = {} /\ branches = {} /\ compiled = FALSE
    /\ apiKey = TRUE
    /\ alwaysInaccurate = FALSE
    /\ state = InitialState(ShortQuery)
    /\ active = {} /\ finished = {}
    /\ writes = NoWrites /\ written = {}
    /\ branchTo = {}
    /\ superstep = 0
    /\ lastRoute = "none"
    /\ lastReply = LlmFailed
    /\ snippets = <<>> /\ idx = 1
    /\ attempt = 0 /\ callDone = TRUE /\ lastExc = NoExc
    /\ waits = 0 /\ provCalls = 0 /\ depth = "none"
    /\ searchPasses = 0 /\ publishRuns = 0 /\ fetched = <<>>
    /\ err = NoExc
    /\ checkpoint = [step |-> 0, values |-> state, done |-> {}, next |-> {}]
    /\ resume = NoResume /\ gen = NoGen
    /\ charBuffer = NoBuffer /\ printed = <<>>

pipelineVars ==
    << publisherVars, phase, graphVars, envVars, resume, gen, state, active, finished, writes, written, branchTo,
       superstep, lastRoute, lastReply, callVars, searchPasses, fetched, publishRuns,
       err, checkpoint >>

InitDepth ==
    /\ PipelineIdle
    /\ fIn = [hasResults |-> FALSE, results |-> <<>>]
    /\ fKept = <<>> /\ fOut = <<>> /\ fDone = FALSE
    /\ dText \in DepthTexts
    /\ dTotal \in 1..MaxTotal
    /\ dOut = "none"
    /\ pText = <<>> /\ pCalls = 0

\* lines 61-62 for the sub-query dText of a state with dTotal sub-queries
DepthCall ==
    /\ dOut = "none"
    /\ dOut' = search_depth(dText, dTotal)
    /\ UNCHANGED << dText, dTotal, filterVars, publishCallVars, pipelineVars >>

NextDepth == DepthCall

SpecDepth == InitDepth /\ [][NextDepth]_vars

(***************************************************************************)
(* Direct calls of format_context_from_tavily on responses whose results   *)
(* may carry scores that are not finite numbers, with up to MaxScoredLen   *)
(* results.                                                                *)
(***************************************************************************)
MaxScoredLen == 3

\* a score: a number (in hundredths), no "score" key, or a non-finite float
Scores ==
    { [hasScore |-> TRUE, kind |-> "num", score |-> 90],
      [hasScore |-> TRUE, kind |-> "num", score |-> 8],
      [hasScore |-> FALSE, kind |-> "num", score |-> 0],
      [hasScore |-> TRUE, kind |-> "inf", score |-> 0],
      [hasScore |-> TRUE, kind |-> "ninf", score |-> 0],
      [hasScore |-> TRUE, kind |-> "nan", score |-> 0] }

ResultsScored(xs) ==
    [i \in 1..Len(xs) |->
        [title |-> <<LowerChars[i]>>, content |-> <<"c">>,
         score |-> xs[i].score, hasScore |-> xs[i].hasScore, kind |-> xs[i].kind]]

\* The lists in which a NaN score stands beside another score are left out:
\* the order sorted() gives them depends on its algorithm. A list of NaN
\* scores alone compares like a list of equal scores and keeps its order.
ScoredInputs ==
    { [hasResults |-> TRUE, results |-> ResultsScored(xs)] :
        xs \in { ys \in UNION { [1..n -> Scores] : n \in 0..MaxScoredLen } :
                   \/ \A i \in 1..Len(ys) : ys[i].kind # "nan"
                   \/ \A i \in 1..Len(ys) : ys[i].kind = "nan" } }

InitScored ==
    /\ PipelineIdle
    /\ fIn \in ScoredInputs
    /\ fKept = <<>> /\ fOut = <<>> /\ fDone = FALSE
    /\ dText = <<>> /\ dTotal = 1 /\ dOut = "none"
    /\ pText = <<>> /\ pCalls = 0

SpecScored == InitScored /\ [][NextFilter]_vars

(***************************************************************************)
(* Up to MaxPublishCalls direct calls of _publish_node on one pipeline     *)
(* object, each with a state whose response is one of PublishTexts.        *)
(***************************************************************************)
MaxPublishCalls == 4

Repeated(s, n) == [i \in 1..(n * Len(s)) |-> s[((i - 1) % Len(s)) + 1]]

\* responses: empty, blank, short, and longer than MaxWidth with a blank
\* just before the width, with no blank at all, and with many blanks
PublishTexts ==
    { <<>>, <<" ">>, <<NL>>, OkText, <<" ", "o", "k", " ">>,
      Repeated(<<"a">>, MaxWidth - 1) \o <<" ", "b", "b">>,
      Repeated(<<"a">>, MaxWidth + 5),
      Repeated(<<"a", "b", " ">>, 30),
      <<" ">> \o Repeated(<<"a">>, MaxWidth),
      Repeated(<<"a", " ">>, 39) \o <<"b", NL, "c">>,
      Repeated(<<" ">>, MaxWidth + 2) \o <<"x">> }

InitPublish ==
    /\ PipelineIdle
    /\ fIn = [hasResults |-> FALSE, results |-> <<>>]
    /\ fKept = <<>> /\ fOut = <<>> /\ fDone = FALSE
    /\ dText = <<>> /\ dTotal = 1 /\ dOut = "none"
    /\ pText = <<>> /\ pCalls = 0

\* _publish_node(state) with state["response"] = text
PublishCall ==
    /\ pCalls < MaxPublishCalls
    /\ \E text \in PublishTexts :
         /\ pText' = text
         /\ charBuffer' = publish(charBuffer, text).obj
         /\ printed' = publish(charBuffer, text).lines
    /\ pCalls' = pCalls + 1
    /\ UNCHANGED << filterVars, depthVars, phase, graphVars, envVars, resume, gen, state,
                    active, finished, writes, written, branchTo, superstep, lastRoute,
                    lastReply, callVars, searchPasses, fetched, publishRuns, err,
                    checkpoint >>

NextPublish == PublishCall

SpecPublish == InitPublish /\ [][NextPublish]_vars

(***************************************************************************)
(* Properties of the run graph (specification Spec).                       *)
(***************************************************************************)
ContainsInaccurate(text) == Contains(InaccurateText, Lower(text))

\* C1: once the critique node has returned, the route is "search_context"
\* exactly when the verdict it just wrote to revised_response contains
\* "inaccurate", whatever the case.
C1_RouteFollowsVerdict ==
    "critique_and_revise" \in finished =>
        (lastRoute = "search_context" <=> ContainsInaccurate(writes.revised_response))

\* C2: with a generation provider that always answers "inaccurate", a run
\* makes at most 3 retrieval passes.
C2_AtMostThreePasses ==
    alwaysInaccurate => searchPasses <= 3

\* C3: the superstep scheduled after the critique node holds exactly one
\* node, and it holds publish only when the route was "publish".
C3_OneSuccessorAfterCritique ==
    (phase = "running" /\ checkpoint.done = {"critique_and_revise"}) =>
        /\ Cardinality(active) = 1
        /\ "publish" \in active => lastRoute = "publish"

\* C4: a compiled graph has no node with both an unconditional and a
\* conditional outgoing edge.
C4_NoNodeWithBothEdgeKinds ==
    compiled =>
        \A n \in nodes : ~ ( /\ \E e \in edges : e[1] = n
                             /\ \E b \in branches : b.from = n )

\* C5: the sub-queries returned by the parse node, and those committed to the
\* state after it, number at least 1 and at most 15.
C5_SubqueriesNonEmptyCapped ==
    /\ "subqueries" \in written =>
          Len(writes.subqueries) >= 1 /\ Len(writes.subqueries) <= MaxSubqueries
    /\ superstep >= 2 =>
          Len(state.subqueries) >= 1 /\ Len(state.subqueries) <= MaxSubqueries

\* replies that are not a JSON list of strings
C6_MalformedTexts ==
    { InaccurateText, <<"[","1","]">>, <<"[",QT,"a",QT,",","1","]">>,
      <<"[","n","u","l","l","]">>, <<"[","[",QT,"a",QT,"]","]">>, <<"[",QT,"a",QT>>,
      <<"[",QT,"a",QT,"]"," ","x">>, <<"{","}">>, <<QT,"a",QT>> }

C6_Malformed(reply) ==
    /\ ~reply.failed
    /\ \/ reply.text \in C6_MalformedTexts
       \/ ~JsonLoads(CleanResponse(reply.text)).ok
       \/ JsonLoads(CleanResponse(reply.text)).val.t # "list"
       \/ \E k \in 1..Len(JsonLoads(CleanResponse(reply.text)).val.items) :
             JsonLoads(CleanResponse(reply.text)).val.items[k].t # "str"

\* C6: when the decomposition reply is not a JSON list of strings, the parse
\* node returns exactly [query] without raising, and the next superstep is the
\* retrieval node with exactly [query] as the committed sub-queries.
C6_MalformedFallsBack ==
    /\ ("parse" \in finished /\ C6_Malformed(lastReply)) =>
          /\ writes.subqueries = <<state.query>>
          /\ phase # "error" /\ err = NoExc
    /\ (superstep = 2 /\ C6_Malformed(lastReply)) =>
          /\ state.subqueries = <<state.query>>
          /\ active = {"search_context"}
          /\ err.type # "Exception"

C6_Witness ==
    /\ superstep = 2
    /\ lastReply = LlmText(<<"[","1","]">>)
    /\ state.subqueries = <<ShortQuery>>
    /\ "search_context" \in finished

C7_Inv ==
    /\ attempt <= 3
    /\ ~callDone => (lastExc.type = "TavilySearchError" /\ attempt < 3)
    /\ err.type # "RetryError"
    /\ (phase = "error" /\ err.type = "TavilySearchError") =>
          (callDone /\ err = lastExc /\ attempt = 3)
    /\ (phase = "error" /\ err.type = "CancelledError") => (callDone /\ err = lastExc)

C7_Step ==
    /\ (attempt' # attempt /\ attempt' > 1) =>
          /\ attempt' = attempt + 1
          /\ ~callDone
          /\ lastExc.type = "TavilySearchError"
    /\ (lastExc' = NoExc /\ attempt' # attempt /\ attempt' >= 1) =>
          /\ callDone'
          /\ idx' = idx + 1
          /\ Len(snippets') = Len(snippets) + 1

C8_ValidationFailsFast ==
    lastExc.msg \in {"query too long", "api key not found"} =>
        /\ attempt = 1 /\ waits = 0 /\ provCalls = 0
        /\ callDone /\ phase = "error"

\* the evidence blocks of the answered sub-queries f, joined in their order
ExpectedContext(f) ==
    Join(<<NL, NL>>,
         [k \in 1..Len(f) |->
             format_context_from_tavily(f[k].response, ScoreMaxDiff, MaxResultsKept)])

\* C12: when the retrieval node has returned, and from then until the next
\* retrieval pass starts, combined_context is the evidence blocks of that
\* pass joined by a blank line, one block per current sub-query and in the
\* order of the sub-queries, with nothing of an earlier pass in it.
C12_ContextRecomputed ==
    phase # "interrupted" =>
        /\ "search_context" \in finished =>
              /\ [k \in 1..Len(fetched) |-> fetched[k].q] = state.subqueries
              /\ writes.combined_context = ExpectedContext(fetched)
        /\ (searchPasses >= 1 /\ "search_context" \notin active) =>
              /\ [k \in 1..Len(fetched) |-> fetched[k].q] = state.subqueries
              /\ state.combined_context = ExpectedContext(fetched)

C12_Witness ==
    /\ searchPasses = 2
    /\ "search_context" \in finished
    /\ Len(state.subqueries) = 2
    /\ state.combined_context = NoRelevantText \o <<NL, NL>> \o NoRelevantText
    /\ \A k \in 1..2 : fetched[k].response.hasResults
    /\ writes.combined_context = ExpectedContext(fetched)

\* C13: in the superstep a resumption starts with, when the latest
\* checkpoint is the one saved after the llm node, the only node scheduled
\* is critique_and_revise, no retrieval pass has been made since the
\* interruption, and the channels hold the subqueries, combined_context and
\* response of the interrupted run.
C13_ResumeAtCritique ==
    (resume.on /\ checkpoint.done = {"llm"}) =>
        /\ phase \in {"running", "error"}
        /\ active = {"critique_and_revise"}
        /\ searchPasses = resume.passes
        /\ state.subqueries = resume.values.subqueries
        /\ state.combined_context = resume.values.combined_context
        /\ state.response = resume.values.response
        /\ state.query = resume.values.query

C13_Witness ==
    /\ resume.on /\ checkpoint.done = {"llm"}
    /\ "critique_and_revise" \in finished
    /\ Len(state.subqueries) = 2
    /\ state.combined_context # <<>>
    /\ state.response = OkText

\* C14: when a generation-provider call of the llm node or of the critique
\* node has failed, it is the only call that node execution made, the
\* failure has been raised to the caller wrapped in an Exception, the node
\* has returned nothing, and the run has stopped: no step is possible.
C14_GenerationFailureAborts ==
    gen.failures > 0 =>
        /\ gen.failures = 1 /\ gen.calls = 1
        /\ phase = "error"
        /\ err = CohereError
        /\ active \in {{"llm"}, {"critique_and_revise"}}
        /\ finished = {} /\ written = {}
        /\ checkpoint.next = active
        /\ ~ENABLED Next

C14_Witness ==
    /\ gen.failures = 1
    /\ phase = "error"
    /\ active = {"critique_and_revise"}
    /\ state.response = OkText
    /\ searchPasses = 1

\* C16: no superstep holds two nodes, so at most one node is executing at
\* any time; in particular search_context and publish are never scheduled
\* together.
C16_AtMostOneNodeActive ==
    /\ Cardinality(active) <= 1
    /\ Cardinality(active \ finished) <= 1
    /\ ~ ({"search_context", "publish"} \subseteq active)

\* the channel each node is there to set
OutputField(n) ==
    CASE n = "parse" -> "subqueries"
      [] n = "search_context" -> "combined_context"
      [] n = "llm" -> "response"
      [] n = "critique_and_revise" -> "revised_response"
      [] OTHER -> "none"

C17_Step ==
    /\ state'.query = state.query
    /\ \A n \in finished' \ finished :
          /\ written' \ written \subseteq
                {OutputField(n)} \cup (IF n = "publish" THEN {"response"} ELSE {})
          /\ \A key \in StateKeys \ (written' \ written) : writes'[key] = writes[key]
          /\ n = "publish" => writes'.response = state.response
          /\ state' = state
    /\ (phase = "running" /\ phase' \in {"running", "done"}) =>
          \A key \in StateKeys :
              state'[key] # state[key] => \E n \in finished : OutputField(n) = key

\* C17: no step changes query; a node that returns hands back only its own
\* channel (publish hands back response with the value it has); and when
\* the engine applies the updates of a superstep, a channel changes only if
\* the node that sets it ran in the superstep: so critique_and_revise and
\* publish never change response.
C17_FrameConditions == [][C17_Step]_vars

C17_Witness ==
    /\ phase = "done"
    /\ publishRuns = 1
    /\ state.query = ShortQuery
    /\ state.subqueries = <<ShortQuery>>
    /\ state.response = OkText
    /\ state.revised_response = InaccurateText

C18_Inv ==
    (phase \in {"error", "interrupted"} /\ checkpoint.next \ finished # {}) =>
        /\ checkpoint.values = IF phase = "error" THEN state ELSE resume.values
        /\ Applied(checkpoint.values, writes, written) = checkpoint.values
        /\ "search_context" \in checkpoint.next \ finished =>
              /\ "combined_context" \notin written
              /\ writes.combined_context = <<>>
              /\ snippets # <<>> =>
                    checkpoint.values.combined_context # Join(<<NL, NL>>, snippets)

C18_Step ==
    checkpoint' # checkpoint =>
        \/ phase = "ready"
        \/ /\ phase = "running"
           /\ active # {} /\ finished = active
           /\ checkpoint'.step = superstep
           /\ checkpoint'.done = finished
           /\ checkpoint'.values = Applied(state, writes, written)

\* C18: the checkpoint changes only when the run starts and when every node
\* of the superstep has returned, never in a step that fails or interrupts
\* the run; when a run has failed or was interrupted with a node still to
\* return, the latest checkpoint holds the channels as committed before the
\* superstep, which are also the channels after every node that did return;
\* a retrieval pass that failed on a sub-query has written no
\* combined_context, and the checkpoint does not hold the join of the
\* snippets collected so far.
C18_CheckpointAfterCompletion == []C18_Inv /\ [][C18_Step]_vars

(***************************************************************************)
(* Properties of the evidence filter (specification SpecFilter).           *)
(***************************************************************************)
\* the scores of a list of results
ScoresOf(rs) == [k \in 1..Len(rs) |-> ScoreOf(rs[k])]

\* the highest score of a non-empty list of results
TopScore(rs) ==
    CHOOSE t \in {ScoreOf(rs[i]) : i \in 1..Len(rs)} :
        \A i \in 1..Len(rs) : ScoreOf(rs[i]) <= t

\* the positions of the results within ScoreMaxDiff of the highest score
Qualifying(rs) == {i \in 1..Len(rs) : TopScore(rs) - ScoreOf(rs[i]) <= ScoreMaxDiff}

C9_Example == <<90, 85, 83, 50, 40>>

\* C9: on a non-empty list the filter keeps results within ScoreMaxDiff of
\* the highest score and no others, in descending score order, as many as
\* there are up to MaxResultsKept, the dropped ones scoring no more than any
\* kept one; the text returned is these results formatted in that order; the
\* scores 0.9, 0.85, 0.83, 0.5, 0.4 leave the results scoring 0.9, 0.85, 0.83.
C9_FilterKeepsNearTop ==
    (fDone /\ Len(ResultsOf(fIn)) > 0) =>
        LET rs == fIn.results
            q == Qualifying(rs)
        IN  /\ Len(fKept) = IF Cardinality(q) < MaxResultsKept
                            THEN Cardinality(q) ELSE MaxResultsKept
            /\ \A k \in 1..Len(fKept) : \E i \in q : rs[i] = fKept[k]
            /\ \A k, l \in 1..Len(fKept) :
                  k < l => /\ ScoreOf(fKept[k]) >= ScoreOf(fKept[l])
                           /\ fKept[k] # fKept[l]
            /\ \A i \in q :
                  (\A k \in 1..Len(fKept) : fKept[k] # rs[i]) =>
                      \A k \in 1..Len(fKept) : ScoreOf(rs[i]) <= ScoreOf(fKept[k])
            /\ fOut = Join(<<NL, NL>>,
                           [k \in 1..Len(fKept) |->
                               fKept[k].title \o <<":", NL>> \o fKept[k].content
                                              \o <<NL, NL>>])
            /\ ScoresOf(rs) = C9_Example => ScoresOf(fKept) = <<90, 85, 83>>

C9_Witness ==
    /\ fDone
    /\ fIn.hasResults /\ ScoresOf(fIn.results) = C9_Example
    /\ Len(fKept) = 3
    /\ fOut = <<"a",":",NL,"c",NL,NL, NL,NL, "b",":",NL,"c",NL,NL, NL,NL,
                "c",":",NL,"c",NL,NL>>

\* C10: the filter returns "No relevant information found." exactly when the
\* response has no "results" key or an empty result list.
C10_EmptyGivesNoRelevant ==
    fDone => (fOut = NoRelevantText <=> (~fIn.hasResults \/ fIn.results = <<>>))

C10_Witness ==
    /\ fDone
    /\ fIn.hasResults /\ fIn.results = <<>>
    /\ fOut = NoRelevantText

(***************************************************************************)
(* Properties of the depth rule (specification SpecDepth).                 *)
(***************************************************************************)
\* the positions where a whitespace-separated word of s starts
WordStarts(s) == {i \in 1..Len(s) : ~IsSpace(s[i]) /\ (i = 1 \/ IsSpace(s[i - 1]))}

\* C11: the depth chosen for a sub-query is "advanced" exactly when the
\* sub-query has more than 8 whitespace-separated words or the state holds
\* more than 3 sub-queries, and "basic" otherwise: 8 words among 3
\* sub-queries give basic, 9 words give advanced, 4 sub-queries give advanced.
C11_DepthRule ==
    dOut # "none" =>
        LET words == Cardinality(WordStarts(dText))
        IN  /\ dOut \in {"basic", "advanced"}
            /\ dOut = "advanced" <=> (words > 8 \/ dTotal > 3)
            /\ (words = 8 /\ dTotal = 3) => dOut = "basic"
            /\ words = 9 => dOut = "advanced"
            /\ dTotal = 4 => dOut = "advanced"

C11_Witness ==
    /\ dOut = "advanced"
    /\ dText = WordsJoined(9, <<" ">>)
    /\ dTotal = 3

(***************************************************************************)
(* Properties of the evidence filter on scores of every kind               *)
(* (specification SpecScored).                                             *)
(***************************************************************************)
\* the positions of rs whose score no other score of rs exceeds
TopPositions(rs) ==
    {i \in 1..Len(rs) : \A j \in 1..Len(rs) : ~ScoreLess(rs[i], rs[j])}

AllFinite(rs) == \A i \in 1..Len(rs) : KindOf(rs[i]) = "num"

\* C19 as stated: on every non-empty result list the filter keeps a
\* top-scoring result first and never returns the text "No high-confidence
\* sources available."
C19_NeverNoHighConfidence ==
    (fDone /\ Len(ResultsOf(fIn)) > 0) =>
        /\ fOut # NoHighConfidenceText
        /\ Len(fKept) >= 1
        /\ \E i \in TopPositions(fIn.results) : fKept[1] = fIn.results[i]

\* C19 amended: on every non-empty result list whose scores are finite
\* numbers (or absent) the filter keeps a top-scoring result first and
\* never returns the text "No high-confidence sources available."
C19_FiniteNeverNoHighConfidence ==
    (fDone /\ Len(ResultsOf(fIn)) > 0 /\ AllFinite(fIn.results)) =>
        /\ fOut # NoHighConfidenceText
        /\ Len(fKept) >= 1
        /\ \E i \in TopPositions(fIn.results) : fKept[1] = fIn.results[i]

C19_Witness ==
    /\ fDone
    /\ Len(fIn.results) = 3 /\ AllFinite(fIn.results)
    /\ fIn.results[1].score = 8 /\ fIn.results[2].score = 90
    /\ ~fIn.results[3].hasScore
    /\ fKept = <<fIn.results[2]>>

(***************************************************************************)
(* Properties of the publisher (specification SpecPublish).                *)
(***************************************************************************)
\* the characters of s that are not whitespace
NonSpace(s) == SelectSeq(s, LAMBDA c : ~IsSpace(c))

\* C20: when a publish call has returned, no character is left in the
\* buffer of the pipeline object; the lines printed are those a pipeline
\* object without a buffer prints for the same response; no line is longer
\* than 80 characters; and the lines hold every character of the response
\* that is not whitespace, the last partial line included.
C20_BufferScopedToCall ==
    pCalls >= 1 =>
        /\ charBuffer.text = <<>>
        /\ printed = publish(NoBuffer, pText).lines
        /\ \A k \in 1..Len(printed) : Len(printed[k]) <= 80
        /\ NonSpace(Join(<<>>, printed)) = NonSpace(pText)

====
